---- MODULE Spec2Model ----
(***************************************************************************)
(* Model of bookoutlet-goodreads: the ISBN utilities (utils/isbn.py), the  *)
(* match scorer Scraper.find_title (search/scraper.py), the concurrent     *)
(* orchestrator ParallelSearcher (search/parallel.py) and the weights of   *)
(* the configuration (config/schema.py).                                   *)
(*                                                                         *)
(* Representation.  An ISBN string is a sequence of one-character strings. *)
(* A title or an author name is a sequence of word tokens (the words that  *)
(* str.split() would give, punctuation and parenthesised annotations being *)
(* tokens of their own).  Python's None is the value None.  A dict is a    *)
(* function whose DOMAIN holds the keys that are present.                  *)
(*                                                                         *)
(* The fuzzywuzzy measures (fuzz.ratio, partial_ratio, token_sort_ratio,   *)
(* token_set_ratio) belong to a third-party library: they are an oracle,   *)
(* a value of the scorer's environment, drawn from bounded sets.           *)
(*                                                                         *)
(* Floating point.  weighted_score is a Python float; the model keeps it   *)
(* as a multiple of 10^-7.  Every weight and multiplier of the code is a   *)
(* decimal fraction, so the exact products are whole in that unit; where   *)
(* the double product falls below the exact one and int() then differs     *)
(* (90.0 * 0.7 = 62.99999999999999), the model takes one unit less.        *)
(***************************************************************************)
EXTENDS Integers, Sequences, FiniteSets, TLC

\* None where the value is otherwise a string (TLC compares values of one kind only)
None == <<"None">>

\* None where the value is otherwise a dict
NoneDict == [none |-> TRUE]

Digits == {"0", "1", "2", "3", "4", "5", "6", "7", "8", "9"}

DigitVal(c) ==
  CASE c = "0" -> 0 [] c = "1" -> 1 [] c = "2" -> 2 [] c = "3" -> 3
    [] c = "4" -> 4 [] c = "5" -> 5 [] c = "6" -> 6 [] c = "7" -> 7
    [] c = "8" -> 8 [] c = "9" -> 9

DigitChar(n) ==
  CASE n = 0 -> "0" [] n = 1 -> "1" [] n = 2 -> "2" [] n = 3 -> "3"
    [] n = 4 -> "4" [] n = 5 -> "5" [] n = 6 -> "6" [] n = 7 -> "7"
    [] n = 8 -> "8" [] n = 9 -> "9"

\* str.upper() on the characters an ISBN string of the model may hold
Upper(c) == IF c = "x" THEN "X" ELSE c

\* dict.get(key, default)
Get(d, k, default) == IF k \in DOMAIN d THEN d[k] ELSE default

RECURSIVE SumTo(_, _)
\* sum of f[1] .. f[n]
SumTo(f, n) == IF n = 0 THEN 0 ELSE f[n] + SumTo(f, n - 1)

\* a faulty clamp: the bound is ignored
Unclamped(a, b) == a

Min(a, b) == IF a < b THEN a ELSE b
Max(a, b) == IF a > b THEN a ELSE b

(***************************************************************************)
(* utils/isbn.py                                                           *)
(***************************************************************************)

\* the $ of a pattern: the end of the string, or the place before a newline
\* that ends the string
EndsAt(s, n) == Len(s) = n \/ (Len(s) = n + 1 /\ s[n + 1] = "\n")

\* the characters str.strip() removes
Whitespace == {" ", "\t", "\n"}

RECURSIVE LStrip(_)
LStrip(s) == IF s # <<>> /\ s[1] \in Whitespace THEN LStrip(Tail(s)) ELSE s

RECURSIVE RStrip(_)
RStrip(s) ==
  IF s # <<>> /\ s[Len(s)] \in Whitespace THEN RStrip(SubSeq(s, 1, Len(s) - 1)) ELSE s

\* re.match(r'^\d{9}[\dX]$', s)
IsIsbn10Shape(s) ==
  /\ EndsAt(s, 10)
  /\ \A i \in 1..9 : s[i] \in Digits
  /\ s[10] \in Digits \cup {"X"}

\* re.match(r'^\d{13}$', s)
IsIsbn13Shape(s) ==
  /\ EndsAt(s, 13)
  /\ \A i \in 1..13 : s[i] \in Digits

\* isbn.strip().replace('-', '').replace(' ', '').upper()
CleanIsbn(isbn) ==
  LET kept == SelectSeq(RStrip(LStrip(isbn)), LAMBDA c : c \notin {"-", " "})
  IN  [i \in 1..Len(kept) |-> Upper(kept[i])]

normalize_isbn(isbn) ==
  IF isbn = None \/ isbn = <<>> THEN None
  ELSE LET normalized == CleanIsbn(isbn)
       IN  IF IsIsbn10Shape(normalized) \/ IsIsbn13Shape(normalized)
           THEN normalized
           ELSE None

\* the EAN-13 check digit of a 12 digit base: weights 1,3,1,3,...
Ean13Check(base) ==
  LET check_sum == SumTo([i \in 1..Len(base) |->
                           DigitVal(base[i]) * (IF (i - 1) % 2 = 0 THEN 1 ELSE 3)],
                         Len(base))
  IN  (10 - (check_sum % 10)) % 10

isbn10_to_isbn13(isbn10) ==
  LET normalized == normalize_isbn(isbn10)
  IN  IF normalized = None \/ Len(normalized) # 10 THEN None
      ELSE LET base == <<"9", "7", "8">> \o SubSeq(normalized, 1, 9)
           IN  Append(base, DigitChar(Ean13Check(base)))

\* a faulty validation: the shape is tested, the checksum is not
ValidateShapeOnly(isbn) == normalize_isbn(isbn) # None

validate_isbn(isbn) ==
  LET normalized == normalize_isbn(isbn)
  IN  IF normalized = None THEN FALSE
      ELSE IF Len(normalized) = 10
           THEN SumTo([i \in 1..10 |->
                        (IF normalized[i] = "X" THEN 10 ELSE DigitVal(normalized[i]))
                        * (10 - (i - 1))], 10) % 11 = 0
           ELSE IF Len(normalized) = 13
                THEN SumTo([i \in 1..13 |->
                             DigitVal(normalized[i])
                             * (IF (i - 1) % 2 = 0 THEN 1 ELSE 3)], 13) % 10 = 0
                ELSE FALSE

\* a faulty conversion: the check value 10 is written 0
Isbn13ToIsbn10NoX(normalized) ==
  LET base == SubSeq(normalized, 4, 12)
      check_sum == SumTo([i \in 1..9 |-> DigitVal(base[i]) * (10 - (i - 1))], 9)
      check_digit == (11 - (check_sum % 11)) % 11
  IN  Append(base, DigitChar(check_digit % 10))

\* the ISBN-13 -> ISBN-10 branch of get_all_isbn_variants
Isbn13ToIsbn10(normalized) ==
  LET base == SubSeq(normalized, 4, 12)
      check_sum == SumTo([i \in 1..9 |-> DigitVal(base[i]) * (10 - (i - 1))], 9)
      check_digit == (11 - (check_sum % 11)) % 11
  IN  IF check_digit = 10 THEN Append(base, "X")
      ELSE Append(base, DigitChar(check_digit))

\* a faulty list of variants: every ISBN-13 is converted, whatever its prefix
VariantsOfAnyPrefix(isbn) ==
  LET normalized == normalize_isbn(isbn)
  IN  IF normalized = None THEN <<>>
      ELSE IF Len(normalized) = 10
           THEN <<normalized, isbn10_to_isbn13(normalized)>>
           ELSE IF Len(normalized) = 13
                THEN <<normalized, Isbn13ToIsbn10(normalized)>>
                ELSE <<normalized>>

\* the list of variants, in the order the code appends them
get_all_isbn_variants(isbn) ==
  LET normalized == normalize_isbn(isbn)
  IN  IF normalized = None THEN <<>>
      ELSE IF Len(normalized) = 10
           THEN LET isbn13 == isbn10_to_isbn13(normalized)
                IN  IF isbn13 # None THEN <<normalized, isbn13>> ELSE <<normalized>>
           ELSE IF Len(normalized) = 13 /\ SubSeq(normalized, 1, 3) = <<"9", "7", "8">>
                THEN <<normalized, Isbn13ToIsbn10(normalized)>>
                ELSE <<normalized>>

\* x in list
InList(x, list) == \E i \in 1..Len(list) : list[i] = x

(***************************************************************************)
(* search/scraper.py: title normalisation                                  *)
(***************************************************************************)

\* str.lower() on the word tokens of the model
Lower(w) ==
  CASE w = "The" -> "the" [] w = "A" -> "a" [] w = "Dune" -> "dune"
    [] w = "Messiah" -> "messiah" [] w = "Emma" -> "emma"
    [] w = "Apollo" -> "apollo" [] w = "Murders" -> "murders"
    [] w = "Frank" -> "frank" [] w = "Herbert" -> "herbert"
    [] w = "Jane" -> "jane" [] w = "Austen" -> "austen"
    [] w = "(Book 1)" -> "(book 1)" [] w = "2nd Edition" -> "2nd edition"
    [] OTHER -> w

LowerStr(s) == [i \in 1..Len(s) |-> Lower(s[i])]

\* len() of the string whose words are the tokens s, joined by single spaces
StrLen(s) ==
  IF Len(s) = 0 THEN 0
  ELSE SumTo([i \in 1..Len(s) |-> Len(s[i])], Len(s)) + (Len(s) - 1)

Articles == {"the", "a", "an"}

\* the parenthesised series / volume / number / edition annotations and the
\* bare "Nth edition" suffix that the eight re.sub calls of lines 56-65 delete
AnnotationTokens ==
  {"(dune series)", "(book 1)", "(#1)", "(volume 2)", "(vol. 2)", "(3)",
   "(special edition)", "2nd edition"}

\* the characters of r'[\'":;,\.\[\]\(\)]+'
PunctTokens == {"'", "\"", ":", ";", ",", ".", "[", "]", "(", ")"}

StripPunct(s) == SelectSeq(s, LAMBDA w : w \notin PunctTokens)

\* position of the first ":" token of s, 0 when there is none
RECURSIVE FirstColon(_, _)
FirstColon(s, i) ==
  IF i > Len(s) THEN 0
  ELSE IF s[i] = ":" THEN i
  ELSE FirstColon(s, i + 1)

\* returns <<main_title, subtitle>>
preprocess_title(title) ==
  LET lowered == LowerStr(title)
      noart == IF Len(lowered) > 1 /\ lowered[1] \in Articles
               THEN Tail(lowered) ELSE lowered
      noann == SelectSeq(noart, LAMBDA w : w \notin AnnotationTokens)
      colon == FirstColon(noann, 1)
      main == IF colon = 0 THEN noann ELSE SubSeq(noann, 1, colon - 1)
      subtitle == IF colon = 0 THEN <<>> ELSE SubSeq(noann, colon + 1, Len(noann))
  IN  <<StripPunct(main), subtitle>>

\* faulty variations: the short variation is added for every subtitle
VariationsAlwaysShort(title) ==
  LET pre == preprocess_title(title)
      subtitle == StripPunct(pre[2])
  IN  IF pre[2] = <<>> THEN <<pre[1]>>
      ELSE <<pre[1], pre[1] \o subtitle,
             pre[1] \o SubSeq(subtitle, 1, Min(3, Len(subtitle)))>>

get_title_variations(title) ==
  LET pre == preprocess_title(title)
      main_title == pre[1]
      subtitle == StripPunct(pre[2])
  IN  IF pre[2] = <<>> THEN <<main_title>>
      ELSE IF Len(subtitle) > 3
           THEN <<main_title, main_title \o subtitle,
                  main_title \o SubSeq(subtitle, 1, 3)>>
           ELSE <<main_title, main_title \o subtitle>>

(***************************************************************************)
(* The fuzzywuzzy oracle.  fz.pairs gives the four measures <<ratio,       *)
(* partial_ratio, token_sort_ratio, token_set_ratio>> of the pairs of      *)
(* strings it lists and fz.other those of every other pair of different    *)
(* strings; fz.author gives token_set_ratio of two different author names. *)
(* Equal non-empty strings measure 100 and an empty string measures 0      *)
(* against a non-empty one, as the library guarantees.                     *)
(***************************************************************************)
M100 == <<100, 100, 100, 100>>

TitleMeasures(fz, a, b) ==
  IF a = <<>> /\ b = <<>> THEN <<100, 100, 100, 0>>
  ELSE IF a = <<>> \/ b = <<>> THEN <<0, 0, 0, 0>>
  ELSE IF a = b THEN M100
  ELSE IF <<a, b>> \in DOMAIN fz.pairs THEN fz.pairs[<<a, b>>]
  ELSE fz.other

\* fuzz.token_set_ratio(a.lower(), b.lower())
AuthorRatio(fz, a, b) ==
  IF a = <<>> \/ b = <<>> THEN 0
  ELSE IF LowerStr(a) = LowerStr(b) THEN 100
  ELSE fz.author

(***************************************************************************)
(* search/scraper.py: Scraper.find_title                                   *)
(*                                                                         *)
(* self is the Scraper: [fuzz_thresh, require_author_match, query_authors, *)
(* fuzz].  A candidate (book) is a dict with any of the keys title,        *)
(* author, isbn, price, url, cover_url.  The value is the returned tuple   *)
(* [found, choice, ratio, match_data], or Raised when the call raises.     *)
(***************************************************************************)
Raised == [raised |-> TRUE]

\* a faulty early return: an empty list makes find_title raise
RaisedOnEmpty == [raised |-> TRUE]

NotFound == [found |-> FALSE, choice |-> <<"N/A">>, ratio |-> 0, match_data |-> <<>>]

\* weighted_score is held in units of 10^-7
Scale == 10000000

\* the threshold of the author-exact bonus (author_similarity >= 0.95)
AuthorExactPct == 95

\* the threshold of the require_author_match rejection (author_similarity < 0.5)
AuthorRejectPct == 50

\* a faulty fast path: the last candidate whose ISBN matches, not the first
IsbnExactLast(book_data, query_isbn_variants, i) ==
  LET hits == {k \in i..Len(book_data) :
                 /\ Get(book_data[k], "isbn", <<>>) # <<>>
                 /\ InList(normalize_isbn(book_data[k].isbn), query_isbn_variants)}
  IN  IF hits = {} THEN 0 ELSE CHOOSE k \in hits : \A j \in hits : j <= k

\* position of the first candidate whose normalized ISBN is one of the query's
\* variants (lines 135-139), 0 when there is none
RECURSIVE IsbnExactIndex(_, _, _)
IsbnExactIndex(book_data, query_isbn_variants, i) ==
  IF i > Len(book_data) THEN 0
  ELSE LET result_isbn == Get(book_data[i], "isbn", <<>>)
       IN  IF result_isbn # <<>>
              /\ InList(normalize_isbn(result_isbn), query_isbn_variants)
           THEN i
           ELSE IsbnExactIndex(book_data, query_isbn_variants, i + 1)

\* lines 140-154: the return of the ISBN fast path for candidate book
IsbnExactReturn(book) ==
  IF "title" \notin DOMAIN book THEN Raised
  ELSE [found |-> TRUE,
        choice |-> <<book.title, "by", Get(book, "author", <<"Unknown">>)>>,
        ratio |-> 100,
        match_data |-> [title |-> Get(book, "title", <<>>),
                        author |-> Get(book, "author", <<>>),
                        price |-> Get(book, "price", ""),
                        url |-> Get(book, "url", ""),
                        cover_url |-> Get(book, "cover_url", ""),
                        isbn |-> book.isbn,
                        match_type |-> "isbn_exact"]]

\* all_candidate_variations with candidate_to_original_map (lines 172-182):
\* a sequence of <<variation, index of the candidate it comes from>>
RECURSIVE CandidateVariations(_, _)
CandidateVariations(titles, idx) ==
  IF idx > Len(titles) THEN <<>>
  ELSE LET variations == get_title_variations(titles[idx])
       IN  [k \in 1..Len(variations) |-> <<variations[k], idx>>]
           \o CandidateVariations(titles, idx + 1)

\* x * 0.7 on doubles, x in units of 10^-7: among the scores of 0 to 120 in
\* steps of a half, the double product has another integer part than the
\* exact product for 90.0 only
Times07(x) ==
  IF x = 90 * Scale THEN (x \div 10) * 7 - 1 ELSE (x \div 10) * 7

\* {w : w in s.split()}
Words(s) == {s[i] : i \in 1..Len(s)}

\* lines 190-244: the score of one (query variation, candidate variation) pair
\* before the query_authors adjustment, in units of 10^-7
PairScore(self, title, titles, query_variation, proc_candidate, orig_title_idx) ==
  LET m == TitleMeasures(self.fuzz, query_variation, proc_candidate)
      qlen == StrLen(query_variation)
      clen == StrLen(proc_candidate)
      base == IF qlen > 50 \/ clen > 50
              THEN (m[1] * 10 + m[2] * 10 + m[3] * 20 + m[4] * 60) * (Scale \div 100)
              ELSE (m[1] * 15 + m[2] * 20 + m[3] * 25 + m[4] * 40) * (Scale \div 100)
      title_words == Words(query_variation)
      common_words == title_words \cap Words(proc_candidate)
      short == IF Cardinality(title_words) <= 3
                  /\ 2 * Cardinality(common_words) < Cardinality(title_words)
               THEN Times07(base) ELSE base
      len_diff == IF qlen > clen THEN qlen - clen ELSE clen - qlen
      len_sum == qlen + clen
      lenpen == IF len_sum > 100
                THEN (IF len_diff > 30 THEN (short \div 100) * 95 ELSE short)
                ELSE (IF len_diff > 10 THEN (short \div 10) * 9 ELSE short)
      main_query == preprocess_title(title)[1]
      main_candidate == preprocess_title(titles[orig_title_idx])[1]
  IN  IF main_query = main_candidate THEN (lenpen \div 10) * 12 ELSE lenpen

\* lines 246-263: the query_authors adjustment; acc.query_author is the local
\* variable query_author, which line 250 overwrites
AuthorAdjust(self, title, book, acc, score) ==
  IF Get(self.query_authors, title, <<>>) # <<>> /\ "author" \in DOMAIN book
  THEN LET qa == LowerStr(self.query_authors[title])
           sim == AuthorRatio(self.fuzz, qa, book.author)
       IN  [query_author |-> qa,
            score |-> IF sim > 80 THEN (score \div 10) * 12
                      ELSE IF sim < 40 THEN Times07(score)
                      ELSE score]
  ELSE [query_author |-> acc.query_author, score |-> score]

\* a faulty update: a pair that equals the best score replaces the best match
ScoreStepKeepsLast(self, title, book_data, titles, acc, query_variation, cand) ==
  LET raw == PairScore(self, title, titles, query_variation, cand[1], cand[2])
      adj == AuthorAdjust(self, title, book_data[cand[2]], acc, raw)
  IN  IF adj.score >= acc.score
      THEN [score |-> adj.score, idx |-> cand[2], query_author |-> adj.query_author]
      ELSE [score |-> acc.score, idx |-> acc.idx, query_author |-> adj.query_author]

\* lines 185-270: one iteration of the inner loop, from the accumulator acc =
\* [score, idx, query_author] (idx = 0: best_match_data is None)
ScoreStep(self, title, book_data, titles, acc, query_variation, cand) ==
  LET raw == PairScore(self, title, titles, query_variation, cand[1], cand[2])
      adj == AuthorAdjust(self, title, book_data[cand[2]], acc, raw)
  IN  IF adj.score > acc.score
      THEN [score |-> adj.score, idx |-> cand[2], query_author |-> adj.query_author]
      ELSE [score |-> acc.score, idx |-> acc.idx, query_author |-> adj.query_author]

\* the two nested loops, pair number k of Len(qvs) * Len(cvs) in iteration order
RECURSIVE ScoreLoop(_, _, _, _, _, _, _, _)
ScoreLoop(self, title, book_data, titles, qvs, cvs, acc, k) ==
  IF k > Len(qvs) * Len(cvs) THEN acc
  ELSE LET qi == ((k - 1) \div Len(cvs)) + 1
           ci == ((k - 1) % Len(cvs)) + 1
       IN  ScoreLoop(self, title, book_data, titles, qvs, cvs,
                     ScoreStep(self, title, book_data, titles, acc, qvs[qi], cvs[ci]),
                     k + 1)

\* needle in haystack, on word tokens
Contains(haystack, needle) ==
  \E i \in 0..(Len(haystack) - Len(needle)) :
     SubSeq(haystack, i + 1, i + Len(needle)) = needle

debug_titles == {<<"apollo", "murders">>, <<"there", "are", "places", "in", "the", "world">>}

\* the score the debug-title overrides of lines 346-352 force
DebugBoostScore == 92

\* lines 328-352
DebugAdjust(title, best_title, score_pct) ==
  IF \E d \in debug_titles :
        Contains(LowerStr(title), d) /\ Contains(LowerStr(best_title), d)
  THEN Max(score_pct, DebugBoostScore)
  ELSE score_pct

\* line 321: float() of the first run of digits and commas of the price raises
\* ValueError when that run holds commas only
PriceRaises(price) == price = "$,"

\* lines 288-300: the ISBN partial-match bonus applies
IsbnPartial(query_isbn, best) ==
  /\ query_isbn # None /\ query_isbn # <<>>
  /\ Get(best, "isbn", <<>>) # <<>>
  /\ LET q == normalize_isbn(query_isbn)
         r == normalize_isbn(best.isbn)
     IN  q # None /\ r # None /\ SubSeq(q, 1, 9) = SubSeq(r, 1, 9)

\* lines 303-309: the author-exact bonus applies
AuthorExact(self, query_author, best) ==
  /\ query_author # None /\ query_author # <<>>
  /\ Get(best, "author", <<>>) # <<>>
  /\ AuthorRatio(self.fuzz, query_author, best.author) >= AuthorExactPct

\* lines 357-368
Found(self, score_pct, match_type, query_author, best) ==
  /\ score_pct >= self.fuzz_thresh
  /\ ~ ( /\ self.require_author_match
         /\ match_type # "isbn_exact"
         /\ query_author # None /\ query_author # <<>>
         /\ Get(best, "author", <<>>) # <<>>
         /\ AuthorRatio(self.fuzz, query_author, best.author) < AuthorRejectPct )

\* lines 272-405: from the best pair of the loop to the returned tuple
FuzzyReturn(self, title, book_data, query_isbn, acc) ==
  IF acc.idx = 0 THEN NotFound
  ELSE LET best == book_data[acc.idx]
           query_author == acc.query_author
       IN  IF "title" \notin DOMAIN best \/ PriceRaises(Get(best, "price", ""))
           THEN Raised
           ELSE
           LET score0 == Min(acc.score \div Scale, 100)
               partial == IsbnPartial(query_isbn, best)
               score1 == IF partial THEN Min((score0 * 110) \div 100, 100) ELSE score0
               exact == AuthorExact(self, query_author, best)
               score2 == IF exact THEN Min((score1 * 115) \div 100, 100) ELSE score1
               match_type == IF exact
                             THEN (IF partial THEN "fuzzy_isbn_author"
                                   ELSE "fuzzy_author_exact")
                             ELSE (IF partial THEN "fuzzy_isbn_partial" ELSE "fuzzy")
               bonuses == (IF partial THEN <<"isbn_partial">> ELSE <<>>)
                          \o (IF exact THEN <<"author_exact">> ELSE <<>>)
               score_pct == DebugAdjust(title, best.title, Min(score2, 100))
           IN  [found |-> Found(self, score_pct, match_type, query_author, best),
                choice |-> IF "author" \in DOMAIN best
                           THEN <<best.title, "by", best.author>>
                           ELSE <<best.title>>,
                ratio |-> score_pct,
                match_data |-> [title |-> Get(best, "title", <<>>),
                                author |-> Get(best, "author", <<>>),
                                price |-> Get(best, "price", ""),
                                url |-> Get(best, "url", ""),
                                cover_url |-> Get(best, "cover_url", ""),
                                isbn |-> Get(best, "isbn", <<>>),
                                match_type |-> match_type,
                                bonuses |-> bonuses]]

find_title(self, title, book_data, query_isbn, query_author) ==
  IF book_data = <<>> THEN NotFound
  ELSE
  LET hit == IF query_isbn # None /\ query_isbn # <<>>
             THEN IsbnExactIndex(book_data, get_all_isbn_variants(query_isbn), 1)
             ELSE 0
  IN  IF hit # 0 THEN IsbnExactReturn(book_data[hit])
      ELSE
      LET titles == [i \in 1..Len(book_data) |-> Get(book_data[i], "title", <<>>)]
          acc == ScoreLoop(self, title, book_data, titles,
                           get_title_variations(title),
                           CandidateVariations(titles, 1),
                           [score |-> 0, idx |-> 0, query_author |-> query_author], 1)
      IN  FuzzyReturn(self, title, book_data, query_isbn, acc)

(***************************************************************************)
(* The data of the model: ISBNs, candidate records, pages, queries         *)
(***************************************************************************)
Isbn10A == <<"0", "2", "6", "2", "0", "4", "6", "4", "8", "2">>
Isbn13A == <<"9", "7", "8", "0", "2", "6", "2", "0", "4", "6", "4", "8", "0">>
\* another printing: the first nine characters of Isbn13A, other last digits
Isbn13B == <<"9", "7", "8", "0", "2", "6", "2", "0", "4", "9", "9", "9", "5">>
Isbn10Hyphen == <<"0", "-", "2", "6", "2", "-", "0", "4", "6", "4", "8", "-", "2">>
IsbnMalformed == <<"1", "2", "3", "4", "5">>

FrankHerbert == <<"Frank", "Herbert">>
JaneAusten == <<"Jane", "Austen">>

cDune ==
  [title |-> <<"Dune">>, author |-> FrankHerbert, isbn |-> Isbn13A,
   price |-> "$12.99", url |-> "https://bookoutlet.ca/book/dune/herbert-frank/1",
   cover_url |-> "https://bookoutlet.ca/cover/1"]
cDuneMessiah ==
  [title |-> <<"Dune", "Messiah">>, author |-> FrankHerbert, isbn |-> Isbn13B,
   price |-> "$60.00"]
\* a record whose price holds no digit after the dollar sign
cMessiahBadPrice ==
  [title |-> <<"Dune", "Messiah">>, author |-> FrankHerbert, price |-> "$,"]
cEmma == [title |-> <<"Emma">>, author |-> JaneAusten, isbn |-> Isbn10A]
\* the fallback of parse_books: a title and nothing else
cTitleOnly == [title |-> <<"The", "Dune">>]

NTasks == 3
MaxWorkers == 2

\* time is counted in units of the pacing delay: delay_ms is 0 or one tick
Delays == {0, 1}

\* the queries of a batch, by task index
QueryPool ==
  << [title |-> <<"Dune">>, isbn |-> Isbn10A, author |-> FrankHerbert],
     [title |-> <<"Emma">>, isbn |-> None, author |-> JaneAusten],
     [title |-> <<"Dune", "Messiah">>, isbn |-> None, author |-> None] >>

QueryOf(index) == QueryPool[(index % Len(QueryPool)) + 1]

SearchTask(index) ==
  [index |-> index, title |-> QueryOf(index).title,
   isbn |-> QueryOf(index).isbn, author |-> QueryOf(index).author]

\* the index lists of the batches: in input order, and rotated ([2,0,1] for 3)
IndexLists(n) == { [p \in 1..n |-> p - 1], [p \in 1..n |-> (p + 1) % n] }

\* the pages searcher.search may return
Pages == {"page_empty", "page_dune", "page_emma"}

\* BookOutletSearch.parse_books on the pages of the model
parse_books(response) ==
  CASE response = "page_empty" -> <<>>
    [] response = "page_dune" -> <<cMessiahBadPrice, cDune>>
    [] response = "page_emma" -> <<cEmma>>

\* the BookOutletSearch of a batch
BatchSearcher ==
  [fuzz_thresh |-> 90, require_author_match |-> TRUE, query_authors |-> <<>>,
   fuzz |-> [pairs |-> <<>>, other |-> <<60, 80, 70, 95>>, author |-> 30]]

(***************************************************************************)
(* search/parallel.py: ParallelSearcher                                    *)
(*                                                                         *)
(* A task is known by its position p in the list tasks.  st[p] is where    *)
(* the call _search_single(tasks[p]) stands:                               *)
(*   "new"       not yet submitted to the executor                         *)
(*   "queued"    submitted, in the executor's work queue                   *)
(*   "sleep"     taken by a worker thread, in time.sleep (rem[p] ticks     *)
(*               left) or waiting for self.lock                            *)
(*   "fetch"     inside searcher.search, holding self.lock                 *)
(*   "score"     search has returned; parse_books and find_title to run    *)
(*   "completed" the future holds the returned value (a result or None)    *)
(*   "failed"    an exception was caught by line 86; the future holds None *)
(* Time is counted in ticks; since_fetch is the time since the last call   *)
(* of searcher.search started, saturated at delay_ms.                      *)
(***************************************************************************)
VARIABLES
  tasks,             \* the argument tasks: a sequence of SearchTask
  workers,           \* self.workers
  delay_ms,          \* self.delay_ms, in ticks
  progress_callback, \* TRUE when the caller supplied a callback
  pc,                \* "running", then "returned"; "interrupted", then "raised",
                     \* when the batch is interrupted; "idle" when no batch runs
  submitted,         \* number of executor.submit calls made
  st,                \* position -> state of the task
  rem,               \* position -> ticks of sleep left
  lock,              \* self.lock: 0 when free, else the position holding it
  future,            \* position -> the result of the future, None before
  collected,         \* positions that as_completed has yielded
  completed_count,   \* the local completed_count
  results,           \* the local list results
  progress,          \* the calls progress_callback received, in order
  returned,          \* the returned list, empty before the return
  since_fetch,       \* ticks since the last fetch started (saturated)
  matched,           \* history: positions whose fetch returned a page with a
                     \* candidate that find_title reported found
  searcher,          \* self.searcher.search when it answers each query the
                     \* same way every time: query -> page or "raises"; None
                     \* when nothing is assumed of it
  call,              \* a stand-alone call of find_title: its arguments
  ret                \* and what it returned, None before

batchVars ==
  <<tasks, workers, delay_ms, progress_callback, pc, submitted, st, rem, lock,
    future, collected, completed_count, results, progress, returned,
    since_fetch, matched, searcher>>
scoreVars == <<call, ret>>
vars == <<batchVars, scoreVars>>

N == Len(tasks)

Running == {p \in 1..N : st[p] \in {"sleep", "fetch", "score"}}
Queued == {p \in 1..N : st[p] = "queued"}
Finished == {p \in 1..N : st[p] \in {"completed", "failed"}}

\* lines 66-82: the dict _search_single returns for a found match.  The key
\* task is not a key of the program's dict: it records the position of the
\* task the result comes from.
ResultDict(p, task, out) ==
  [Query |-> task.title, Match |-> out.choice, Score |-> <<out.ratio, "%">>,
   index |-> task.index,
   Price |-> Get(out.match_data, "price", ""),
   URL |-> Get(out.match_data, "url", ""),
   CoverURL |-> Get(out.match_data, "cover_url", ""),
   ISBN |-> Get(out.match_data, "isbn", <<>>),
   MatchType |-> Get(out.match_data, "match_type", "fuzzy"),
   task |-> p]

\* a faulty _search_single: the test of line 66 forgets found
SearchSingleIgnoringFound(p, task, book_data, out) ==
  IF out = Raised THEN Raised
  ELSE IF book_data # <<>> THEN ResultDict(p, task, out)
  ELSE NoneDict

\* lines 66-88: what _search_single returns, from book_data (the value of
\* parse_books) and out (the tuple find_title returned, or Raised)
SearchSingleValue(p, task, book_data, out) ==
  IF out = Raised THEN Raised
  ELSE IF book_data # <<>> /\ out.found THEN ResultDict(p, task, out)
  ELSE NoneDict

\* list.sort(key=lambda x: x.get('index', 0)): a stable insertion sort
RECURSIVE InsertByIndex(_, _)
InsertByIndex(sorted, r) ==
  IF sorted = <<>> THEN <<r>>
  ELSE LET last == sorted[Len(sorted)]
       IN  IF Get(last, "index", 0) <= Get(r, "index", 0)
           THEN Append(sorted, r)
           ELSE Append(InsertByIndex(SubSeq(sorted, 1, Len(sorted) - 1), r), last)

\* a faulty sort: the list stays in completion order
KeepCompletionOrder(list) == list

RECURSIVE SortByIndex(_)
SortByIndex(list) ==
  IF list = <<>> THEN <<>>
  ELSE InsertByIndex(SortByIndex(SubSeq(list, 1, Len(list) - 1)), list[Len(list)])

\* result.pop('index', None)
PopIndex(r) == [k \in (DOMAIN r) \ {"index"} |-> r[k]]

\* a faulty end of the batch: the index is removed, the list is not sorted
UnsortedResults(list) == [i \in 1..Len(list) |-> PopIndex(list[i])]

\* lines 132-139
FinalResults(list) ==
  LET sorted == SortByIndex(list)
  IN  [i \in 1..Len(sorted) |-> PopIndex(sorted[i])]

\* a faulty pool: a thread per work item, whatever max_workers
CanStartUnbounded(p) ==
  /\ st[p] = "queued"
  /\ \A q \in Queued : p <= q

\* a faulty pool: a task that failed is taken again
CanStartRetry(p) ==
  /\ st[p] \in {"queued", "failed"}
  /\ Cardinality(Running) < workers

\* ThreadPoolExecutor(max_workers): a queued work item is taken, in
\* submission order, as soon as fewer than max_workers threads are busy
CanStart(p) ==
  /\ st[p] = "queued"
  /\ \A q \in Queued : p <= q
  /\ Cardinality(Running) < workers

\* line 111: executor.submit(self._search_single, task), in list order
Submit ==
  /\ pc = "running"
  /\ submitted < N
  /\ submitted' = submitted + 1
  /\ st' = [st EXCEPT ![submitted + 1] = "queued"]
  /\ UNCHANGED <<tasks, workers, delay_ms, progress_callback, pc, rem, lock,
                 future, collected, completed_count, results, progress,
                 returned, since_fetch, matched, scoreVars, searcher>>

\* a worker thread takes the task and enters _search_single (lines 46-49)
Start(p) ==
  /\ CanStart(p)
  /\ st' = [st EXCEPT ![p] = "sleep"]
  /\ rem' = [rem EXCEPT ![p] = delay_ms]
  /\ UNCHANGED <<tasks, workers, delay_ms, progress_callback, pc, submitted, lock,
                 future, collected, completed_count, results, progress,
                 returned, since_fetch, matched, scoreVars, searcher>>

\* one tick of time passes: every time.sleep in progress has one tick less to go
Tick ==
  /\ pc \in {"running", "interrupted"}
  /\ \/ since_fetch < delay_ms
     \/ \E p \in 1..N : st[p] = "sleep" /\ rem[p] > 0
  /\ rem' = [p \in 1..N |-> IF st[p] = "sleep" /\ rem[p] > 0 THEN rem[p] - 1 ELSE rem[p]]
  /\ since_fetch' = Min(since_fetch + 1, delay_ms)
  /\ UNCHANGED <<tasks, workers, delay_ms, progress_callback, pc, submitted, st, lock,
                 future, collected, completed_count, results, progress,
                 returned, matched, scoreVars, searcher>>

\* a faulty worker: the sleep is over and the task is scored without a fetch
FetchSkipped(p) ==
  /\ st[p] = "sleep"
  /\ rem[p] = 0
  /\ st' = [st EXCEPT ![p] = "score"]
  /\ UNCHANGED <<tasks, workers, delay_ms, progress_callback, pc, submitted, rem, lock,
                 future, collected, completed_count, results, progress,
                 returned, since_fetch, matched, scoreVars, searcher>>

\* a faulty worker: search is called without the lock
FetchStartNoLock(p) ==
  /\ st[p] = "sleep"
  /\ rem[p] = 0
  /\ st' = [st EXCEPT ![p] = "fetch"]
  /\ since_fetch' = 0
  /\ UNCHANGED <<tasks, workers, delay_ms, progress_callback, pc, submitted, rem, lock,
                 future, collected, completed_count, results, progress,
                 returned, matched, scoreVars, searcher>>

\* lines 52-53: the sleep is over, the lock is acquired, search is called
FetchStart(p) ==
  /\ st[p] = "sleep"
  /\ rem[p] = 0
  /\ lock = 0
  /\ lock' = p
  /\ st' = [st EXCEPT ![p] = "fetch"]
  /\ since_fetch' = 0
  /\ UNCHANGED <<tasks, workers, delay_ms, progress_callback, pc, submitted, rem,
                 future, collected, completed_count, results, progress,
                 returned, matched, scoreVars, searcher>>

\* a faulty lock: acquire and release without with, so that a raise of
\* search leaves the lock held
LockKeptOnRaise(p, raises) == IF raises THEN p ELSE 0

\* the lock after the with block of lines 52-53 is left, by return or by raise
LockAfterFetch(p, raises) == 0

\* searcher.search returns (raises = FALSE) or raises (raises = TRUE); the
\* with block releases the lock; a raise is caught by line 86 and
\* _search_single returns None.  The page that search returned is the local
\* variable response, which no other thread reads: the model draws it when
\* the task is scored.
FetchReturn(p, raises) ==
  /\ st[p] = "fetch"
  /\ lock' = LockAfterFetch(p, raises)
  /\ IF raises
     THEN st' = [st EXCEPT ![p] = "failed"]
     ELSE st' = [st EXCEPT ![p] = "score"]
  /\ UNCHANGED <<tasks, workers, delay_ms, progress_callback, pc, submitted, rem,
                 future, collected, completed_count, results, progress, returned,
                 since_fetch, matched, scoreVars, searcher>>

\* the page holds at least one candidate and find_title returned found
Matches(book_data, out) == book_data # <<>> /\ out # Raised /\ out.found

\* lines 66-88: the end of _search_single; an exception is caught by line 86
\* and _search_single returns None
ScoreEnd(p, book_data, out) ==
  /\ LET v == SearchSingleValue(p, tasks[p], book_data, out)
     IN  IF v = Raised
         THEN st' = [st EXCEPT ![p] = "failed"] /\ UNCHANGED future
         ELSE st' = [st EXCEPT ![p] = "completed"]
              /\ future' = [future EXCEPT ![p] = v]
  /\ matched' = IF Matches(book_data, out) THEN matched \cup {p} ELSE matched

\* lines 55-88: parse_books and find_title on the page resp, then the result
Score(p, resp) ==
  /\ st[p] = "score"
  /\ ScoreEnd(p, parse_books(resp),
              find_title(BatchSearcher, tasks[p].title, parse_books(resp),
                         tasks[p].isbn, tasks[p].author))
  /\ UNCHANGED <<tasks, workers, delay_ms, progress_callback, pc, submitted, rem, lock,
                 collected, completed_count, results, progress, returned,
                 since_fetch, scoreVars, searcher>>

\* a faulty callback: called before completed_count += 1
ProgressCallBeforeCount(count, p) ==
  [count |-> count - 1, title |-> tasks[p].title, task |-> p]

\* lines 120-122: progress_callback(completed_count, task.title), called after
\* completed_count += 1.  The key task is not an argument of the call: it
\* records the position of the task whose future was yielded.
ProgressCall(count, p) == [count |-> count, title |-> tasks[p].title, task |-> p]

\* a faulty collection: a future without a result empties the list
ResultsLostOnNone(list, result) ==
  IF result # NoneDict THEN Append(list, result) ELSE <<>>

\* lines 124-127: result = future.result(); if result: results.append(result)
ResultsAfter(list, result) ==
  IF result # NoneDict THEN Append(list, result) ELSE list

\* lines 116-130: as_completed yields the finished future of task p
Collect(p) ==
  /\ pc = "running"
  /\ submitted = N
  /\ p \in Finished \ collected
  /\ collected' = collected \cup {p}
  /\ completed_count' = completed_count + 1
  /\ progress' = IF progress_callback
                 THEN Append(progress, ProgressCall(completed_count + 1, p))
                 ELSE progress
  /\ results' = ResultsAfter(results, future[p])
  /\ UNCHANGED <<tasks, workers, delay_ms, progress_callback, pc, submitted, st, rem,
                 lock, future, returned, since_fetch, matched, scoreVars, searcher>>

\* lines 132-139: as_completed is exhausted, the executor is shut down, the
\* results are sorted, stripped of their index and returned
Return ==
  /\ pc = "running"
  /\ submitted = N
  /\ collected = 1..N
  /\ returned' = FinalResults(results)
  /\ pc' = "returned"
  /\ UNCHANGED <<tasks, workers, delay_ms, progress_callback, submitted, st, rem, lock,
                 future, collected, completed_count, results, progress,
                 since_fetch, matched, scoreVars, searcher>>

\* KeyboardInterrupt is raised in the main thread inside the with block of
\* lines 108-130: neither line 129 (except Exception) nor _search_single
\* catches it, and the submit loop and the as_completed loop are left
Interrupt ==
  /\ pc = "running"
  /\ pc' = "interrupted"
  /\ UNCHANGED <<tasks, workers, delay_ms, progress_callback, submitted, st, rem, lock,
                 future, collected, completed_count, results, progress, returned,
                 since_fetch, matched, scoreVars, searcher>>

\* line 108: ThreadPoolExecutor.__exit__ calls shutdown(wait=True), which
\* joins the worker threads after every submitted work item has run; then
\* the exception leaves search_all_parallel, lines 132-139 are not reached
\* and the local list results is dropped
InterruptedExit ==
  /\ pc = "interrupted"
  /\ 1..submitted \subseteq Finished
  /\ pc' = "raised"
  /\ UNCHANGED <<tasks, workers, delay_ms, progress_callback, submitted, st, rem, lock,
                 future, collected, completed_count, results, progress, returned,
                 since_fetch, matched, scoreVars, searcher>>

BatchInit ==
  /\ \E n \in 0..NTasks : \E idx \in IndexLists(n) :
        tasks = [p \in 1..n |-> SearchTask(idx[p])]
  /\ workers \in 1..MaxWorkers
  /\ delay_ms \in Delays
  /\ progress_callback \in BOOLEAN
  /\ pc = "running"
  /\ submitted = 0
  /\ st = [p \in 1..N |-> "new"]
  /\ rem = [p \in 1..N |-> 0]
  /\ lock = 0
  /\ future = [p \in 1..N |-> NoneDict]
  /\ collected = {}
  /\ completed_count = 0
  /\ results = <<>>
  /\ progress = <<>>
  /\ returned = <<>>
  /\ since_fetch = delay_ms
  /\ matched = {}
  /\ call = NoneDict
  /\ ret = NoneDict

\* a batch whose searcher may answer anything, call after call
Init ==
  /\ BatchInit
  /\ searcher = NoneDict

Next ==
  \/ Submit
  \/ \E p \in 1..N : Start(p)
  \/ Tick
  \/ \E p \in 1..N : FetchStart(p)
  \/ \E p \in 1..N : \E raises \in BOOLEAN : FetchReturn(p, raises)
  \/ \E p \in 1..N : \E resp \in Pages : Score(p, resp)
  \/ \E p \in 1..N : Collect(p)
  \/ Return

Spec == Init /\ [][Next]_vars

(***************************************************************************)
(* Stand-alone calls of find_title: call holds the arguments, ret the      *)
(* returned value.  No batch runs.                                         *)
(***************************************************************************)
MaxCands == 2

\* the sequences over S of length at most n
RECURSIVE SeqsUpTo(_, _)
SeqsUpTo(S, n) ==
  IF n = 0 THEN {<<>>}
  ELSE LET shorter == SeqsUpTo(S, n - 1)
       IN  shorter \cup {Append(q, x) : q \in {r \in shorter : Len(r) = n - 1}, x \in S}

CandidatePool == {cDune, cDuneMessiah, cEmma, cTitleOnly, cMessiahBadPrice}

ScoreTitles == {<<"Dune">>, <<"The", "Dune", ":", "Messiah">>}

\* the measures the library gives two different titles, and two different authors
OtherMeasures == {<<90, 90, 90, 90>>, <<89, 90, 90, 90>>, <<60, 80, 70, 95>>}
AuthorRatios == {30, 49, 50, 95}

Scraper(fuzz_thresh, require_author_match, query_authors, other, author) ==
  [fuzz_thresh |-> fuzz_thresh, require_author_match |-> require_author_match,
   query_authors |-> query_authors,
   fuzz |-> [pairs |-> <<>>, other |-> other, author |-> author]]

\* calls that exercise the ISBN fast path
IsbnCalls ==
  { [self |-> Scraper(th, req, <<>>, <<60, 80, 70, 95>>, 30),
     title |-> t, book_data |-> bd, query_isbn |-> qi, query_author |-> qa] :
      th \in {90, 100}, req \in BOOLEAN, t \in ScoreTitles,
      bd \in SeqsUpTo(CandidatePool, MaxCands),
      qi \in {Isbn13A, Isbn10Hyphen, Isbn13B, IsbnMalformed},
      qa \in {None, JaneAusten} }

\* calls that exercise the fuzzy scoring, the bonuses and the author policy
FuzzyCalls ==
  { [self |-> Scraper(th, req, <<>>, om, ar),
     title |-> t, book_data |-> bd, query_isbn |-> qi, query_author |-> qa] :
      th \in {90, 91}, req \in BOOLEAN, om \in OtherMeasures, ar \in AuthorRatios,
      t \in ScoreTitles,
      bd \in SeqsUpTo(CandidatePool \ {cEmma}, MaxCands),
      qi \in {None, Isbn13B},
      qa \in {None, <<>>, JaneAusten} }

\* calls of a Scraper on which load_authors has filled query_authors
LoadedAuthorCalls ==
  { [self |-> Scraper(90, req, (<<"Dune">> :> a), om, ar),
     title |-> <<"Dune">>, book_data |-> bd, query_isbn |-> None, query_author |-> qa] :
      req \in BOOLEAN, a \in {FrankHerbert, JaneAusten}, om \in OtherMeasures,
      ar \in {30, 49},
      bd \in SeqsUpTo({cDune, cDuneMessiah, cTitleOnly}, MaxCands),
      qa \in {None, FrankHerbert, JaneAusten} }

ScoreCalls == IsbnCalls \cup FuzzyCalls \cup LoadedAuthorCalls

NoBatch ==
  /\ tasks = <<>> /\ workers = 1 /\ delay_ms = 0 /\ progress_callback = FALSE
  /\ pc = "idle" /\ submitted = 0 /\ st = <<>> /\ rem = <<>> /\ lock = 0
  /\ future = <<>> /\ collected = {} /\ completed_count = 0
  /\ results = <<>> /\ progress = <<>> /\ returned = <<>> /\ since_fetch = 0
  /\ matched = {}
  /\ searcher = NoneDict

ScoreInit ==
  /\ NoBatch
  /\ call \in ScoreCalls
  /\ ret = NoneDict

\* Scraper.find_title is called and returns (or raises)
FindTitle ==
  /\ call # NoneDict
  /\ ret = NoneDict
  /\ ret' = find_title(call.self, call.title, call.book_data, call.query_isbn,
                       call.query_author)
  /\ UNCHANGED <<call, batchVars>>

ScoreNext == FindTitle

ScoreSpec == ScoreInit /\ [][ScoreNext]_vars

\* candidates whose titles hold a debug title of line 329, and the same titles
\* with another word of the same length in its place
cApolloDeluxe ==
  [title |-> <<"the", "apollo", "murders", "deluxe">>, author |-> FrankHerbert,
   price |-> "$6.00"]
cGeminiDeluxe ==
  [title |-> <<"the", "gemini", "murders", "deluxe">>, author |-> FrankHerbert,
   price |-> "$6.00"]

\* calls whose query title holds a debug title or not
DebugTitleCalls ==
  { [self |-> Scraper(th, req, <<>>, om, ar),
     title |-> t, book_data |-> bd, query_isbn |-> None, query_author |-> qa] :
      th \in {90, 93}, req \in BOOLEAN, om \in OtherMeasures, ar \in {30, 95},
      t \in {<<"apollo", "murders">>, <<"gemini", "murders">>},
      bd \in SeqsUpTo({cApolloDeluxe, cGeminiDeluxe, cDuneMessiah}, MaxCands),
      qa \in {None, JaneAusten} }

DebugTitleInit ==
  /\ NoBatch
  /\ call \in DebugTitleCalls
  /\ ret = NoneDict

DebugTitleSpec == DebugTitleInit /\ [][FindTitle]_vars

\* every thread that can take a step eventually takes one, and time passes
FairSpec == Spec /\ WF_vars(Next)

(***************************************************************************)
(* Stand-alone calls of the functions of utils/isbn.py: call holds the     *)
(* function and its argument, ret the returned value.  No batch runs.      *)
(***************************************************************************)
Isbn10X == <<"0", "4", "3", "9", "4", "2", "0", "8", "9", "X">>
Isbn13X == <<"9", "7", "8", "0", "4", "3", "9", "4", "2", "0", "8", "9", "1">>
Isbn13Other == <<"9", "7", "9", "1", "0", "9", "0", "6", "3", "6", "0", "7", "1">>

\* ISBNs with a valid checksum
IsbnBases == {Isbn10A, Isbn13A, Isbn10X, Isbn13X, Isbn13Other}

\* the characters an ISBN is written with
IsbnChars == Digits \cup {"X"}

\* b with one character replaced by another character of an ISBN
Alterations(b) ==
  UNION { {[b EXCEPT ![i] = c] : c \in IsbnChars \ {b[i]}} : i \in 1..Len(b) }

\* b as a user or a spreadsheet may write it: with separators or whitespace
\* before, after or inside it, or with a lower-case check character
Decorations(b) ==
  UNION { { <<w>> \o b, b \o <<w>>, b \o <<w, "-">>, <<w, "-">> \o b,
            SubSeq(b, 1, 5) \o <<w>> \o SubSeq(b, 6, Len(b)) }
          : w \in {" ", "\t", "\n", "-"} }
  \cup { [i \in 1..Len(b) |-> IF b[i] = "X" THEN "x" ELSE b[i]] }

IsbnInputs ==
  IsbnBases
  \cup UNION {Alterations(b) : b \in IsbnBases}
  \cup UNION {Decorations(b) : b \in IsbnBases}
  \cup {None, <<>>, <<" ">>, <<"-">>, <<"X">>, IsbnMalformed, Isbn10Hyphen}

IsbnFunctions ==
  {"normalize_isbn", "isbn10_to_isbn13", "validate_isbn", "get_all_isbn_variants"}

IsbnFunctionCalls == {[op |-> o, isbn |-> x] : o \in IsbnFunctions, x \in IsbnInputs}

IsbnInit ==
  /\ NoBatch
  /\ call \in IsbnFunctionCalls
  /\ ret = NoneDict

NormalizeIsbn ==
  /\ ret = NoneDict
  /\ call.op = "normalize_isbn"
  /\ ret' = [value |-> normalize_isbn(call.isbn)]
  /\ UNCHANGED <<call, batchVars>>

Isbn10ToIsbn13 ==
  /\ ret = NoneDict
  /\ call.op = "isbn10_to_isbn13"
  /\ ret' = [value |-> isbn10_to_isbn13(call.isbn)]
  /\ UNCHANGED <<call, batchVars>>

ValidateIsbn ==
  /\ ret = NoneDict
  /\ call.op = "validate_isbn"
  /\ ret' = [value |-> validate_isbn(call.isbn)]
  /\ UNCHANGED <<call, batchVars>>

GetAllIsbnVariants ==
  /\ ret = NoneDict
  /\ call.op = "get_all_isbn_variants"
  /\ ret' = [value |-> get_all_isbn_variants(call.isbn)]
  /\ UNCHANGED <<call, batchVars>>

IsbnNext ==
  \/ NormalizeIsbn
  \/ Isbn10ToIsbn13
  \/ ValidateIsbn
  \/ GetAllIsbnVariants

IsbnSpec == IsbnInit /\ [][IsbnNext]_vars

(***************************************************************************)
(* The comparison of the ISBN fast path, on one query ISBN and one         *)
(* candidate ISBN.                                                         *)
(***************************************************************************)

\* scraper.py lines 133 and 138-139: the candidate's normalized ISBN is one
\* of the variants of the query's ISBN
IsbnVariantMatch(query_isbn, result_isbn) ==
  InList(normalize_isbn(result_isbn), get_all_isbn_variants(query_isbn))

\* b with its last character replaced
CheckAlterations(b) == {[b EXCEPT ![Len(b)] = c] : c \in IsbnChars \ {b[Len(b)]}}

\* the ISBNs compared: valid ones, ones with a wrong check character, ones
\* written with separators or whitespace, and strings that are no ISBN
MatchInputs ==
  IsbnBases
  \cup UNION {CheckAlterations(b) : b \in IsbnBases}
  \cup UNION {Decorations(b) : b \in {Isbn10A, Isbn13X}}
  \cup {None, <<>>, IsbnMalformed, Isbn10Hyphen}

MatchInit ==
  /\ NoBatch
  /\ call \in {[op |-> "isbn_variant_match", query_isbn |-> a, result_isbn |-> b]
                : a \in MatchInputs, b \in MatchInputs}
  /\ ret = NoneDict

IsbnMatch ==
  /\ ret = NoneDict
  /\ ret' = [value |-> IsbnVariantMatch(call.query_isbn, call.result_isbn)]
  /\ UNCHANGED <<call, batchVars>>

MatchSpec == MatchInit /\ [][IsbnMatch]_vars

(***************************************************************************)
(* get_title_variations, on titles with and without a subtitle.            *)
(***************************************************************************)

\* longest text after the first colon, in tokens
MaxSubtitle == 5

\* what stands before the first colon
TitleHeads ==
  {<<"Dune">>, <<"The", "Dune", "Messiah">>, <<"Dune", "(Book 1)">>, <<"Dune", ",">>}

\* what follows the first colon: words, punctuation and further colons
SubtitleTokens == {"Messiah", ".", ":", "2nd Edition"}

VariationTitles ==
  TitleHeads
  \cup {h \o <<":">> \o t : h \in TitleHeads, t \in SeqsUpTo(SubtitleTokens, MaxSubtitle)}

TitleInit ==
  /\ NoBatch
  /\ call \in {[op |-> "get_title_variations", title |-> t] : t \in VariationTitles}
  /\ ret = NoneDict

GetTitleVariations ==
  /\ ret = NoneDict
  /\ ret' = [value |-> get_title_variations(call.title)]
  /\ UNCHANGED <<call, batchVars>>

TitleSpec == TitleInit /\ [][GetTitleVariations]_vars

(***************************************************************************)
(* A batch whose searcher answers each query the same way every time.      *)
(***************************************************************************)
\* line 53: the arguments of self.searcher.search
QueryOfTask(task) == [title |-> task.title, isbn |-> task.isbn, author |-> task.author]

Queries == {QueryPool[i] : i \in 1..Len(QueryPool)}

\* the deterministic searchers: each query has one answer
Collaborators == [Queries -> Pages \cup {"raises"}]

\* what self.searcher.search answers for task p
SearchOutcome(p) == searcher[QueryOfTask(tasks[p])]

DetInit ==
  /\ BatchInit
  /\ searcher \in Collaborators

DetFetchReturn(p) == FetchReturn(p, SearchOutcome(p) = "raises")

DetScore(p) == Score(p, SearchOutcome(p))

DetNext ==
  \/ Submit
  \/ \E p \in 1..N : Start(p)
  \/ Tick
  \/ \E p \in 1..N : FetchStart(p)
  \/ \E p \in 1..N : DetFetchReturn(p)
  \/ \E p \in 1..N : DetScore(p)
  \/ \E p \in 1..N : Collect(p)
  \/ Return

DetSpec == DetInit /\ [][DetNext]_vars

(***************************************************************************)
(* search/scraper.py: Scraper.search_all_titles, the sequential path.      *)
(* records are self.titles and self.book_data, one [title, isbn, author]   *)
(* per book; search is the answer of self.search to each query.  The value *)
(* is [value |-> found_titles], or Raised when the call raises.            *)
(***************************************************************************)

\* lines 448-460: the dict appended for a found match
SequentialResult(t, out) ==
  [Query |-> t, Match |-> out.choice, Score |-> <<out.ratio, "%">>,
   Price |-> Get(out.match_data, "price", ""),
   URL |-> Get(out.match_data, "url", ""),
   CoverURL |-> Get(out.match_data, "cover_url", ""),
   ISBN |-> Get(out.match_data, "isbn", <<>>),
   MatchType |-> Get(out.match_data, "match_type", "fuzzy")]

\* lines 447-462: one turn of the loop, from book_data and the tuple out that
\* find_title returned; an exception of find_title is not caught
SequentialTurn(found_titles, t, book_data, out) ==
  IF out = Raised THEN Raised
  ELSE IF book_data # <<>> /\ out.found
       THEN [value |-> Append(found_titles.value, SequentialResult(t, out))]
       ELSE found_titles

\* lines 433-466: the loop from the book of position idx on
RECURSIVE search_all_titles(_, _, _, _)
search_all_titles(records, search, idx, found_titles) ==
  IF found_titles = Raised \/ idx > Len(records) THEN found_titles
  ELSE IF search[records[idx]] = "raises" THEN Raised
  ELSE search_all_titles(records, search, idx + 1,
         SequentialTurn(found_titles, records[idx].title,
                        parse_books(search[records[idx]]),
                        find_title(BatchSearcher, records[idx].title,
                                   parse_books(search[records[idx]]),
                                   records[idx].isbn, records[idx].author)))

\* a batch that the user may interrupt
InterruptNext ==
  \/ Submit
  \/ \E p \in 1..N : Start(p)
  \/ Tick
  \/ \E p \in 1..N : FetchStart(p)
  \/ \E p \in 1..N : \E raises \in BOOLEAN : FetchReturn(p, raises)
  \/ \E p \in 1..N : \E resp \in Pages : Score(p, resp)
  \/ \E p \in 1..N : Collect(p)
  \/ Return
  \/ Interrupt
  \/ InterruptedExit

InterruptSpec == Init /\ [][InterruptNext]_vars

(***************************************************************************)
(* Properties of search_all_parallel                                       *)
(***************************************************************************)
Failed == {p \in 1..N : st[p] = "failed"}

\* the positions in the returned list of the results of task p
ReturnedAt(p) == {i \in 1..Len(returned) : returned[i].task = p}

\* C1: the returned list is in strictly increasing order of the index of the
\* task each result comes from, whatever the number of workers and the order
\* of completion, and no returned result has the key index
C1_ReturnedInIndexOrder ==
  pc = "returned" =>
    /\ \A i \in 1..Len(returned) : "index" \notin DOMAIN returned[i]
    /\ \A i, j \in 1..Len(returned) :
          i < j => tasks[returned[i].task].index < tasks[returned[j].task].index

\* two results were collected against the order of their indices, and the
\* list was returned
C1_Witness ==
  /\ pc = "returned"
  /\ Len(returned) >= 2
  /\ \E i, j \in 1..Len(results) : i < j /\ results[i].index > results[j].index

\* C2: a task that fails in its fetch or in its scoring does not stop the
\* batch: while the batch runs a step stays possible, and the returned list
\* holds, for every other task that matched, the result its worker returned
C2_FailureIsIsolated ==
  /\ (pc = "running" /\ Failed # {}) => ENABLED Next
  /\ (pc = "returned" /\ Failed # {}) =>
        \A p \in matched : \E i \in 1..Len(returned) : returned[i] = PopIndex(future[p])

\* a task failed, was collected before a task that matched, and the batch
\* returned
C2_Witness ==
  /\ pc = "returned"
  /\ \E i, j \in 1..Len(progress) :
        /\ i < j
        /\ progress[i].task \in Failed
        /\ progress[j].task \in matched

\* C3: the returned list holds exactly one result for every task whose fetch
\* returned a page with at least one candidate that was scored found, none
\* for any other task, and no result that is not of a task of the batch
C3_OneResultPerMatch ==
  pc = "returned" =>
    /\ \A p \in 1..N :
          Cardinality(ReturnedAt(p)) = IF p \in matched THEN 1 ELSE 0
    /\ \A i \in 1..Len(returned) :
          /\ returned[i].task \in 1..N
          /\ returned[i].Query = tasks[returned[i].task].title

\* a batch returned in which one task matched, one failed and one completed
\* without a match
C3_Witness ==
  /\ pc = "returned"
  /\ matched # {}
  /\ Failed # {}
  /\ \E p \in 1..N : st[p] = "completed" /\ p \notin matched
  /\ Len(returned) = Cardinality(matched)

\* C7: under FairSpec (every fetch call returns or raises, threads run, time
\* passes) search_all_parallel returns, and when it has returned every task
\* is completed or failed
C7_Terminates ==
  /\ <>(pc = "returned")
  /\ [](pc = "returned" => \A p \in 1..N : st[p] \in {"completed", "failed"})

\* a full batch returned with a failed and a completed task
C7_Witness ==
  /\ pc = "returned"
  /\ N = NTasks
  /\ Failed # {}
  /\ \E p \in 1..N : st[p] = "completed"

C9_WorkerPool ==
  /\ Cardinality(Running) <= workers
  /\ (Queued # {} /\ Cardinality(Running) < workers) =>
        ENABLED (\E p \in 1..N : Start(p))

\* two workers, three tasks: one task has finished and the third task, which
\* had to wait for a worker, is in progress beside the other
C9_Witness ==
  /\ workers = 2
  /\ N = 3
  /\ Cardinality(Running) = 2
  /\ 3 \in Running
  /\ Finished # {}

\* C10: with a pacing delay, a call of searcher.search starts at least
\* delay_ms after the start of the call before it
C10_FetchesPaced ==
  [][\A p \in 1..N :
       (st[p] = "sleep" /\ st'[p] = "fetch") => since_fetch >= delay_ms]_vars

(***************************************************************************)
(* Properties of find_title                                                *)
(***************************************************************************)
Present(x) == x # None /\ x # <<>>

\* find_title has returned a tuple (it has not raised)
Returned == ret # NoneDict /\ ret # Raised

\* the candidates of the call whose normalized ISBN is a variant of the
\* query ISBN
IsbnHits ==
  LET variants == get_all_isbn_variants(call.query_isbn)
  IN  {i \in 1..Len(call.book_data) :
         /\ "isbn" \in DOMAIN call.book_data[i]
         /\ \E k \in 1..Len(variants) :
               variants[k] = normalize_isbn(call.book_data[i].isbn)}

\* C4: when the query ISBN is present and a candidate's normalized ISBN is in
\* its variant set, find_title returns found with score 100 and match type
\* isbn_exact for the first such candidate of the list, whatever the titles,
\* the threshold and require_author_match
C4_IsbnFastPath ==
  (ret # NoneDict /\ Present(call.query_isbn) /\ IsbnHits # {}) =>
    LET first == CHOOSE i \in IsbnHits : \A j \in IsbnHits : i <= j
    IN  /\ ret # Raised
        /\ ret.found
        /\ ret.ratio = 100
        /\ ret.match_data.match_type = "isbn_exact"
        /\ ret.match_data.title = call.book_data[first].title
        /\ ret.match_data.isbn = call.book_data[first].isbn

\* a query ISBN-10 with hyphens, two candidates that carry this ISBN (as an
\* ISBN-10 and as an ISBN-13), another title, another author, threshold 100
\* and require_author_match: the first candidate is returned
C4_Witness ==
  /\ Returned
  /\ call.query_isbn = Isbn10Hyphen
  /\ call.book_data = <<cEmma, cDune>>
  /\ call.title = <<"Dune">>
  /\ call.self.fuzz_thresh = 100
  /\ call.self.require_author_match
  /\ ret.match_data.title = <<"Emma">>

\* the outcome is one of the fuzzy scoring: a best candidate was chosen and
\* the ISBN fast path did not apply
FuzzyOutcome ==
  /\ Returned
  /\ ret.choice # NotFound.choice
  /\ ret.match_data.match_type # "isbn_exact"

\* the require_author_match policy rejects the match: the policy is on, the
\* query has an author, and its token-set similarity to the author of the
\* matched candidate is below 0.5
PolicyRejects ==
  /\ call.self.require_author_match
  /\ Present(call.query_author)
  /\ ret.match_data.author # <<>>
  /\ AuthorRatio(call.self.fuzz, call.query_author, ret.match_data.author)
       < AuthorRejectPct

\* C5: for a fuzzy outcome, found is true exactly when the final score is at
\* least the threshold and the require_author_match policy does not reject
\* the match
C5_FoundIffThreshold ==
  FuzzyOutcome => (ret.found <=> (ret.ratio >= call.self.fuzz_thresh /\ ~ PolicyRejects))

\* C6: with require_author_match, a query author and a fuzzy outcome,
\* find_title does not report found when the similarity of the query author
\* and the author of the matched candidate is below 0.5
C6_AuthorPolicy ==
  (FuzzyOutcome /\ PolicyRejects) => ~ ret.found

\* C11: when a batch is interrupted, no worker is running once the call has
\* exited, and the results of the tasks that had completed and been collected
\* before the interruption are handed to the caller.
C11_InterruptKeepsCompleted ==
  pc = "raised" =>
    /\ Running = {}
    /\ Queued = {}
    /\ \A p \in collected \cap matched : ReturnedAt(p) # {}

\* the stage of task p: a task moves through the stages in this order
Stage(s) ==
  CASE s = "new" -> 0
    [] s = "queued" -> 1
    [] s = "sleep" -> 2
    [] s = "fetch" -> 3
    [] s = "score" -> 4
    [] s \in {"completed", "failed"} -> 5

\* the callbacks made for task p
ReportsOf(p) == {i \in 1..Len(progress) : progress[i].task = p}

\* C12: no task is retried: a task enters the fetch once and the scorer once
\* (a step never takes it back to an earlier stage, and it enters the fetch
\* only from its sleep and the scorer only from its fetch), a finished task
\* keeps its outcome, and a failed task is collected and reported once.
C12_NoRetry ==
  [][\A p \in 1..N :
        /\ Stage(st'[p]) >= Stage(st[p])
        /\ st[p] \in {"completed", "failed"} => st'[p] = st[p]
        /\ (st'[p] = "fetch" /\ st[p] # "fetch") => st[p] = "sleep"
        /\ (st'[p] = "score" /\ st[p] # "score") => st[p] = "fetch"
        /\ p \in collected => p \in collected'
        /\ Cardinality(ReportsOf(p)) <= 1
        /\ (p \in collected /\ progress_callback) => Cardinality(ReportsOf(p)) = 1]_vars

\* a full batch in which every task failed, each reported once, has returned
C12_Witness ==
  /\ pc = "returned"
  /\ N = NTasks
  /\ Failed = 1..N
  /\ progress_callback
  /\ \A p \in 1..N : Cardinality(ReportsOf(p)) = 1
  /\ returned = <<>>

\* what _search_single gives for task p when the searcher is deterministic:
\* a function of the task and of the searcher alone
ExpectedOf(p) ==
  LET o == SearchOutcome(p)
  IN  IF o = "raises" THEN NoneDict
      ELSE LET v == SearchSingleValue(p, tasks[p], parse_books(o),
                      find_title(BatchSearcher, tasks[p].title, parse_books(o),
                                 tasks[p].isbn, tasks[p].author))
           IN  IF v = Raised THEN NoneDict ELSE v

\* the results of the tasks of index i, i + 1, ..., in that order
RECURSIVE ExpectedFrom(_)
ExpectedFrom(i) ==
  IF i >= N THEN <<>>
  ELSE LET p == CHOOSE q \in 1..N : tasks[q].index = i
           v == ExpectedOf(p)
       IN  (IF v = NoneDict THEN <<>> ELSE <<PopIndex(v)>>) \o ExpectedFrom(i + 1)

\* C13: with a searcher that answers each query the same way every time, the
\* list a batch returns is determined by the tasks and the searcher alone:
\* it is the same for every number of workers and every interleaving.
C13_SameForEveryWorkerCount ==
  pc = "returned" => returned = ExpectedFrom(0)

\* two workers collected two results out of index order and the batch returned
C13_Witness ==
  /\ pc = "returned"
  /\ searcher # NoneDict
  /\ workers = MaxWorkers
  /\ Len(returned) >= 2
  /\ \E i, j \in 1..Len(results) : i < j /\ results[i].index > results[j].index

\* C14: the score find_title returns is an integer between 0 and 100,
\* whatever bonuses (main title, partial ISBN, exact author) were applied.
C14_ScoreInRange ==
  Returned => ret.ratio \in 0..100

\* a fuzzy match that earned the partial ISBN and the exact author bonus on
\* an exact title: 100 before the bonuses, 100 after them
C14_Witness ==
  /\ Returned
  /\ ret.match_data # <<>>
  /\ ret.match_data.match_type = "fuzzy_isbn_author"
  /\ ret.match_data.bonuses = <<"isbn_partial", "author_exact">>
  /\ call.title = ret.match_data.title
  /\ ret.ratio = 100

\* C15: with an empty candidate list find_title returns not found, the
\* choice "N/A", score 0 and empty match data, and does not raise, also when
\* a query ISBN and a query author are given.
C15_EmptyCandidates ==
  (call # NoneDict /\ ret # NoneDict /\ call.book_data = <<>>) =>
    /\ ret # Raised
    /\ ret.found = FALSE
    /\ ret.choice = <<"N/A">>
    /\ ret.ratio = 0
    /\ ret.match_data = <<>>

\* find_title returned for an empty list, a query ISBN and a query author
C15_Witness ==
  /\ Returned
  /\ call.book_data = <<>>
  /\ Present(call.query_isbn)
  /\ Present(call.query_author)
  /\ ret.found = FALSE

(***************************************************************************)
(* config/schema.py: MatchingWeights.  A weight is a whole number of        *)
(* thousandths; the weights of the model are multiples of 0.05, whose      *)
(* floating point sums are within 1e-15 of the sums in thousandths.        *)
(***************************************************************************)
WeightFields == <<"ratio", "partial_ratio", "token_sort_ratio", "token_set_ratio">>

\* the default= of lines 9-12
WeightDefaults ==
  [ratio |-> 150, partial_ratio |-> 200, token_sort_ratio |-> 250,
   token_set_ratio |-> 400]

\* the 0.001 of line 20
SumTolerance == 1

ValidationError == [error |-> "ValidationError"]

\* ge=0.0, le=1.0
WeightInRange(v) == v >= 0 /\ v <= 1000

Abs(x) == IF x < 0 THEN 0 - x ELSE x

\* lines 17-21: validate_sum(cls, v, info) raises
ValidateSumRaises(v, data) ==
  LET total == Get(data, "ratio", 0) + Get(data, "partial_ratio", 0)
               + Get(data, "token_sort_ratio", 0) + v
  IN  Abs(total - 1000) > SumTolerance

\* MatchingWeights(**kwargs).  pydantic validates the fields in the order of
\* their declaration: a supplied value is tested against ge and le, and
\* that of token_set_ratio is then passed to validate_sum, with the fields
\* before it that are valid as info.data; a field that is not supplied
\* takes its default, which is not validated (validate_default is off) and
\* for which no field validator runs.
MatchingWeights(kwargs) ==
  LET supplied == DOMAIN kwargs
      out_of_range == {f \in supplied : ~ WeightInRange(kwargs[f])}
      values == [f \in {WeightFields[i] : i \in 1..3} \ out_of_range |->
                   IF f \in supplied THEN kwargs[f] ELSE WeightDefaults[f]]
      sum_raises == /\ "token_set_ratio" \in supplied \ out_of_range
                    /\ ValidateSumRaises(kwargs["token_set_ratio"], values)
  IN  IF out_of_range # {} \/ sum_raises THEN ValidationError
      ELSE [f \in {WeightFields[i] : i \in 1..4} |->
              IF f \in supplied THEN kwargs[f] ELSE WeightDefaults[f]]

\* the weights a configuration file may give
WeightValues == {0, 100, 150, 200, 250, 300, 400, 500, 1000, 1500}

\* any of the four weights supplied, the others left out
WeightArgs ==
  UNION {[D -> WeightValues] : D \in SUBSET {WeightFields[i] : i \in 1..4}}

ConfigInit ==
  /\ NoBatch
  /\ call \in {[op |-> "MatchingWeights", kwargs |-> k] : k \in WeightArgs}
  /\ ret = NoneDict

Construct ==
  /\ ret = NoneDict
  /\ call.op = "MatchingWeights"
  /\ ret' = [value |-> MatchingWeights(call.kwargs)]
  /\ UNCHANGED <<call, batchVars>>

ConfigNext == Construct

ConfigSpec == ConfigInit /\ [][ConfigNext]_vars

\* the function op has returned
Called(op) == ret # NoneDict /\ call.op = op

\* the ISBN-10 that get_all_isbn_variants derives from an ISBN-13, None when
\* it derives none
ToIsbn10(isbn) ==
  LET normalized == normalize_isbn(isbn)
      variants == get_all_isbn_variants(isbn)
  IN  IF normalized # None /\ Len(normalized) = 13 /\ Len(variants) = 2
      THEN variants[2]
      ELSE None

\* the round trip of the value a conversion returned
RoundTripHolds ==
  /\ (Called("get_all_isbn_variants") /\ ToIsbn10(call.isbn) # None) =>
        isbn10_to_isbn13(ret.value[2]) = normalize_isbn(call.isbn)
  /\ (Called("isbn10_to_isbn13") /\ ret.value # None) =>
        ToIsbn10(ret.value) = normalize_isbn(call.isbn)

C17_NormalizeIdempotent ==
  (Called("normalize_isbn") /\ ret.value # None) =>
    normalize_isbn(ret.value) = ret.value

\* the inputs that are one character away from an ISBN with a valid checksum
AlteredValid == UNION {Alterations(b) : b \in {v \in IsbnBases : validate_isbn(v)}}

\* C18: validate_isbn rejects every ISBN-10 or ISBN-13 that differs from a
\* checksum-valid one in one character (a digit, or X, in place of another).
C18_RejectsAlterations ==
  (Called("validate_isbn") /\ call.isbn \in AlteredValid) => ret.value = FALSE

\* the check character X of a valid ISBN-10 was replaced by a digit and the
\* result was rejected
C18_Witness ==
  /\ Called("validate_isbn")
  /\ call.isbn \in Alterations(Isbn10X)
  /\ call.isbn[10] \in Digits
  /\ ret.value = FALSE

\* the input with hyphens and spaces removed, upper-cased
StatedClean(isbn) ==
  LET kept == SelectSeq(isbn, LAMBDA c : c \notin {"-", " "})
  IN  [i \in 1..Len(kept) |-> Upper(kept[i])]

\* nine digits and a digit or X, or thirteen digits
StatedShape(s) ==
  \/ Len(s) = 10 /\ (\A i \in 1..9 : s[i] \in Digits) /\ s[10] \in IsbnChars
  \/ Len(s) = 13 /\ (\A i \in 1..13 : s[i] \in Digits)

\* C19: normalize_isbn returns a value exactly when the input, with hyphens
\* and spaces removed and upper-cased, is nine digits and a digit or X, or
\* thirteen digits; for every other string get_all_isbn_variants is empty.
C19_AcceptsExactlyTheShape ==
  call.isbn # None =>
    /\ Called("normalize_isbn") =>
          (ret.value # None <=> StatedShape(StatedClean(call.isbn)))
    /\ (Called("get_all_isbn_variants") /\ ~ StatedShape(StatedClean(call.isbn))) =>
          ret.value = <<>>

\* the weight of field f of the call, supplied or defaulted
WeightOf(f) == IF f \in DOMAIN call.kwargs THEN call.kwargs[f] ELSE WeightDefaults[f]

\* C20: a MatchingWeights whose four weights, supplied or defaulted, have a
\* sum that differs from 1.0 by more than 0.001 is refused with an error.
C20_WeightsSumToOne ==
  (Called("MatchingWeights")
     /\ Abs(WeightOf("ratio") + WeightOf("partial_ratio")
            + WeightOf("token_sort_ratio") + WeightOf("token_set_ratio") - 1000)
        > SumTolerance)
  => ret.value = ValidationError

\* the steps of a task: Pending (new, queued), Dispatched (sleep), Fetching
\* (fetch), Scoring (score), Completed, Failed
TaskSteps ==
  {<<"new", "queued">>, <<"queued", "sleep">>, <<"sleep", "fetch">>,
   <<"fetch", "score">>, <<"fetch", "failed">>,
   <<"score", "completed">>, <<"score", "failed">>}

\* C21: a task moves only forward through Pending, Dispatched, Fetching,
\* Scoring and then Completed or Failed: its scoring starts only when its
\* fetch has returned, it fails only from Fetching or Scoring, and it never
\* leaves Completed or Failed.
C21_TaskStateMachine ==
  [][\A p \in 1..N : st'[p] # st[p] => <<st[p], st'[p]>> \in TaskSteps]_vars

\* one task is fetching, where search may raise; another is scoring, where
\* find_title raises on the page page_dune; a third has completed
C21_Witness ==
  \E p, q, r \in 1..N :
     /\ st[p] = "fetch"
     /\ st[q] = "score"
     /\ SearchSingleValue(q, tasks[q], parse_books("page_dune"),
                          find_title(BatchSearcher, tasks[q].title,
                                     parse_books("page_dune"), tasks[q].isbn,
                                     tasks[q].author)) = Raised
     /\ st[r] = "completed"

\* the tasks inside searcher.search
Fetching == {p \in 1..N : st[p] = "fetch"}

\* C22: at most one worker is inside searcher.search at any time, and that
\* worker holds the lock of the ParallelSearcher.
C22_OneFetchAtATime ==
  /\ Cardinality(Fetching) <= 1
  /\ \A p \in Fetching : lock = p
  /\ lock # 0 => lock \in Fetching

\* with two workers, one task is inside search while another, whose sleep is
\* over, waits for the lock
C22_Witness ==
  /\ workers = MaxWorkers
  /\ \E p, q \in 1..N :
        /\ st[p] = "fetch"
        /\ st[q] = "sleep" /\ rem[q] = 0
        /\ ~ ENABLED FetchStart(q)

\* find_title raises for task p on none of the pages: when p fails, its
\* fetch raised
FailsOnlyInFetch(p) ==
  \A resp \in Pages :
     find_title(BatchSearcher, tasks[p].title, parse_books(resp), tasks[p].isbn,
                tasks[p].author) # Raised

\* C23: under FairSpec, a fetch that raises releases the lock, a worker that
\* waits for the lock eventually performs its fetch, and a running batch can
\* always take a step, whatever fetches raised.
C23_LockReleasedOnRaise ==
  /\ [][\A p \in 1..N : (st[p] = "fetch" /\ st'[p] = "failed") => lock' = 0]_vars
  /\ \A p \in 1..NTasks :
        (p <= N /\ st[p] = "sleep" /\ rem[p] = 0) ~> (p <= N /\ st[p] = "fetch")
  /\ [](pc = "running" => ENABLED Next)

\* two workers: the fetch of the first task raised, and the second task is
\* now inside search, holding the lock
C23_Witness ==
  /\ workers = MaxWorkers
  /\ N >= 2
  /\ st[1] = "failed" /\ FailsOnlyInFetch(1)
  /\ st[2] = "fetch" /\ lock = 2

\* the match_type that goes with a list of bonuses
TypeOfBonuses(bonuses) ==
  IF InList("isbn_partial", bonuses)
  THEN (IF InList("author_exact", bonuses) THEN "fuzzy_isbn_author"
        ELSE "fuzzy_isbn_partial")
  ELSE (IF InList("author_exact", bonuses) THEN "fuzzy_author_exact" ELSE "fuzzy")

\* the query ISBN and the ISBN of the matched candidate both normalize and
\* agree on their first 9 characters
IsbnPartialHolds ==
  /\ Present(call.query_isbn)
  /\ ret.match_data.isbn # <<>>
  /\ normalize_isbn(call.query_isbn) # None
  /\ normalize_isbn(ret.match_data.isbn) # None
  /\ SubSeq(normalize_isbn(call.query_isbn), 1, 9)
       = SubSeq(normalize_isbn(ret.match_data.isbn), 1, 9)

\* the query author is at least 0.95 similar to the author of the matched
\* candidate
AuthorExactHolds ==
  /\ Present(call.query_author)
  /\ ret.match_data.author # <<>>
  /\ AuthorRatio(call.self.fuzz, call.query_author, ret.match_data.author)
       >= AuthorExactPct

\* C24: for a fuzzy outcome the match_type is the one that goes with the
\* bonuses applied, the ISBN-partial bonus is applied exactly when both ISBNs
\* normalize and agree on their first 9 characters, the author-exact bonus
\* exactly when the author similarity is at least 0.95, each at most once.
C24_MatchTypeFromBonuses ==
  FuzzyOutcome =>
    LET bonuses == ret.match_data.bonuses
    IN  /\ ret.match_data.match_type = TypeOfBonuses(bonuses)
        /\ \A i, j \in 1..Len(bonuses) : i # j => bonuses[i] # bonuses[j]
        /\ InList("isbn_partial", bonuses) <=> IsbnPartialHolds
        /\ InList("author_exact", bonuses) <=> AuthorExactHolds

\* the titles, the query variations and the candidate variations of the call
CallTitles ==
  [i \in 1..Len(call.book_data) |-> Get(call.book_data[i], "title", <<>>)]
CallQueryVariations == get_title_variations(call.title)
CallCandidates == CandidateVariations(CallTitles, 1)
CallPairs == 1..(Len(CallQueryVariations) * Len(CallCandidates))

\* the candidate of pair k, in iteration order
CandidateOfPair(k) == CallCandidates[((k - 1) % Len(CallCandidates)) + 1]

\* the adjusted score of pair k
AdjustedScore(k) ==
  LET qv == CallQueryVariations[((k - 1) \div Len(CallCandidates)) + 1]
      cand == CandidateOfPair(k)
      raw == PairScore(call.self, call.title, CallTitles, qv, cand[1], cand[2])
  IN  AuthorAdjust(call.self, call.title, call.book_data[cand[2]],
                   [query_author |-> call.query_author], raw).score

\* the first pair, in iteration order, that reaches the maximum adjusted score
IsBestPair(k) ==
  /\ \A j \in CallPairs : AdjustedScore(j) <= AdjustedScore(k)
  /\ \A j \in CallPairs : j < k => AdjustedScore(j) < AdjustedScore(k)

\* the returned match data are those of candidate b
MatchDataOf(b) ==
  /\ ret.match_data.title = Get(b, "title", <<>>)
  /\ ret.match_data.author = Get(b, "author", <<>>)
  /\ ret.match_data.price = Get(b, "price", "")
  /\ ret.match_data.url = Get(b, "url", "")
  /\ ret.match_data.cover_url = Get(b, "cover_url", "")
  /\ ret.match_data.isbn = Get(b, "isbn", <<>>)

\* C25: for a fuzzy outcome, the match data returned are those of the
\* candidate of the first pair (query variation, candidate variation), in
\* iteration order, that reaches the maximum adjusted score.
C25_BestIsFirstMaximum ==
  FuzzyOutcome =>
    \E k \in CallPairs :
       /\ IsBestPair(k)
       /\ MatchDataOf(call.book_data[CandidateOfPair(k)[2]])

\* two different candidates reach the maximum and the first one is returned
C25_Witness ==
  /\ FuzzyOutcome
  /\ \E k, j \in CallPairs :
        /\ IsBestPair(k)
        /\ AdjustedScore(j) = AdjustedScore(k)
        /\ call.book_data[CandidateOfPair(j)[2]] # call.book_data[CandidateOfPair(k)[2]]
        /\ MatchDataOf(call.book_data[CandidateOfPair(k)[2]])

\* the check value of the ISBN-10 with the 9 digits base: the value c of
\* 0..10 that makes 10*d1 + 9*d2 + ... + 2*d9 + c a multiple of 11
CheckValue10(base) ==
  CHOOSE c \in 0..10 :
    (SumTo([i \in 1..9 |-> DigitVal(base[i]) * (11 - i)], 9) + c) % 11 = 0

\* C26: get_all_isbn_variants converts an ISBN-13 to ISBN-10 only when it
\* starts with 978 (for any other ISBN-13 the list holds the normalized input
\* alone), the check value 10 is written X, and every ISBN the conversions
\* produce passes validate_isbn.
C26_ConversionsAreValid ==
  /\ Called("get_all_isbn_variants") =>
        LET normalized == normalize_isbn(call.isbn)
        IN  /\ (normalized # None /\ Len(normalized) = 13) =>
                  IF SubSeq(normalized, 1, 3) = <<"9", "7", "8">>
                  THEN /\ Len(ret.value) = 2
                       /\ Len(ret.value[2]) = 10
                       /\ SubSeq(ret.value[2], 1, 9) = SubSeq(normalized, 4, 12)
                       /\ ret.value[2][10] =
                            (IF CheckValue10(SubSeq(normalized, 4, 12)) = 10 THEN "X"
                             ELSE DigitChar(CheckValue10(SubSeq(normalized, 4, 12))))
                       /\ validate_isbn(ret.value[2])
                  ELSE ret.value = <<normalized>>
            /\ (normalized # None /\ Len(normalized) = 10) =>
                  /\ Len(ret.value) = 2
                  /\ Len(ret.value[2]) = 13
                  /\ validate_isbn(ret.value[2])
  /\ (Called("isbn10_to_isbn13") /\ ret.value # None) => validate_isbn(ret.value)

\* an ISBN-13 with a wrong check digit was converted to the ISBN-10 of check
\* value 10, written with X
C26_Witness ==
  /\ Called("get_all_isbn_variants")
  /\ ~ validate_isbn(call.isbn)
  /\ Len(ret.value) = 2
  /\ ret.value[2] = Isbn10X

SubtitleWords == StripPunct(preprocess_title(call.title)[2])

\* C28: get_title_variations returns a list that is never empty and starts
\* with the normalized main title; it has exactly one element when the title
\* has no subtitle, exactly two (main, main + subtitle) when the subtitle has
\* at most 3 words, and exactly three (main, main + subtitle, main + first 3
\* subtitle words) when it has more.
C28_VariationCount ==
  ret # NoneDict =>
    LET pre == preprocess_title(call.title)
    IN  /\ Len(ret.value) >= 1
        /\ ret.value[1] = pre[1]
        /\ pre[2] = <<>> => Len(ret.value) = 1
        /\ (pre[2] # <<>> /\ Len(SubtitleWords) <= 3) =>
              ret.value = <<pre[1], pre[1] \o SubtitleWords>>
        /\ (pre[2] # <<>> /\ Len(SubtitleWords) > 3) =>
              ret.value = <<pre[1], pre[1] \o SubtitleWords,
                            pre[1] \o SubSeq(SubtitleWords, 1, 3)>>

\* a title whose subtitle has exactly 3 words, written with punctuation
\* between them, got two variations
C28_Witness ==
  /\ ret # NoneDict
  /\ Len(preprocess_title(call.title)[2]) > 3
  /\ Len(SubtitleWords) = 3
  /\ Len(ret.value) = 2

\* a title with the words apollo and gemini exchanged: the two have as many
\* characters and words, and the library measures them alike
SwapWords(title) ==
  [i \in 1..Len(title) |->
     IF title[i] = "apollo" THEN "gemini"
     ELSE IF title[i] = "gemini" THEN "apollo" ELSE title[i]]

SwapBooks(book_data) ==
  [i \in 1..Len(book_data) |->
     [book_data[i] EXCEPT !.title = SwapWords(book_data[i].title)]]

\* C29: no query title receives a hard-coded score override: the score and
\* the found value of a call are those of the call with the same settings,
\* measures and bonuses whose literal titles differ.
C29_NoTitleOverride ==
  (ret # NoneDict /\ ret # Raised) =>
    LET twin == find_title(call.self, SwapWords(call.title), SwapBooks(call.book_data),
                           call.query_isbn, call.query_author)
    IN  /\ ret.found = twin.found
        /\ ret.ratio = twin.ratio

\* a returned result without the key that records the position of its task
RecordOf(r) == [k \in (DOMAIN r) \ {"task"} |-> r[k]]

\* the searcher never fails
NeverFails == \A q \in Queries : searcher[q] # "raises"

\* the tasks are in index order: 0, 1, 2, ...
InIndexOrder == \A p \in 1..N : tasks[p].index = p - 1

\* C30: for a searcher that is deterministic and never fails and tasks in
\* index order, search_all_parallel returns the same sequence of result
\* records as the sequential search_all_titles on the same books.
C30_ParallelEqualsSequential ==
  (pc = "returned" /\ NeverFails /\ InIndexOrder) =>
    [value |-> [i \in 1..Len(returned) |-> RecordOf(returned[i])]]
      = search_all_titles([p \in 1..N |-> QueryOfTask(tasks[p])], searcher, 1,
                          [value |-> <<>>])

====
